---------------------------- MODULE Spec2Model ----------------------------
(***************************************************************************)
(* Study-tracker backend: the study-session store, its CRUD handlers and   *)
(* the statistics / streak engine, in the two variants of the repository:  *)
(*   "file"  backend-simple/server.js over database.js (JSON flat file)    *)
(*   "doc"   controllers/studySessionController.js over the mongoose       *)
(*           model StudySession (document database)                        *)
(* Handlers are modelled one action each, run to completion, with req.user *)
(* the caller that the auth gate let through and req.body the fields the   *)
(* request carries.                                                        *)
(* SpecHttp puts the route tables and the flat-file token gate in front of *)
(* the handlers; SpecAsync lets the flat-file requests give way at their   *)
(* awaits, each readDB and writeDB of the whole file a step of its own.    *)
(*                                                                         *)
(* Time is a tick counter: TicksPerDay ticks make one calendar day, the    *)
(* server's zone is the zone dates are written in.  A document session's   *)
(* date is a timestamp (tick); a flat-file session's date is the string    *)
(* the client sent, 'YYYY-MM-DD' of day d being modelled by d.             *)
(***************************************************************************)
EXTENDS Integers, Sequences, FiniteSets, TLC

VARIABLES variant, now, sessions, nextId, res, users, nextToken, req, calls

vars == <<variant, now, sessions, nextId, res, users, nextToken, req, calls>>

\* ---------------------------------------------------------------- bounds
MaxSessions == 2          \* sessions held by the store at once
MaxDay      == 1          \* calendar days 0..MaxDay
TicksPerDay == 2          \* clock resolution of the model
StreakMaxSessions == 3    \* sessions of the one owner of SpecStreak
StreakMaxDay      == 4    \* calendar days 0..StreakMaxDay of SpecStreak
MaxUsers    == 2          \* registered users of SpecHttp
MaxTokens   == 3          \* tokens issued in a behaviour of SpecHttp
HttpMaxSessions == 1      \* sessions held by the store in SpecHttp
HttpMaxNow  == 1          \* clock ticks 0..HttpMaxNow of SpecHttp
MaxCalls    == 3          \* requests of a behaviour of SpecAsync

\* ------------------------------------------------------------- constants
DefaultLimit   == 10      \* getStudySessions: limit = 10
CalendarWindow == 90      \* getUserStats: last 90 days
MinDuration    == 1       \* studySessionSchema.duration.min
MaxDuration    == 1440    \* studySessionSchema.duration.max

None   == "none"          \* no user
Absent == -1              \* undefined: a parameter the request does not carry
NoRecord == [id |-> Absent]   \* undefined / null where a record is expected
Undefined == "undefined"  \* undefined where a string is expected
Users == {"u1", "u2"}     \* req.user.id / req.user._id
Days  == 0 .. MaxDay
MaxNow == TicksPerDay * (MaxDay + 1) - 1
MaxIds == MaxSessions + 1 \* ObjectIds handed out in a behaviour
DateInputs     == Days \cup {Absent}         \* req.body.date, req.params.date
DurationInputs == {0, 30, 45, Absent}        \* req.body.duration
NotesInputs    == {Undefined, "", "n"}       \* req.body.notes
\* a duration outside 1 .. 1440 on either side
WideDurations  == {-5, 0, 30, 1441, Absent}
\* req.query.startDate / endDate
RangeInputs    == {<<Absent, Absent>>, <<0, Absent>>} \cup
                  {<<a, b>> \in Days \X Days : a <= b}

\* !v for a number or undefined, and for a non-empty string or undefined
TruthyNumber(v) == v # Absent /\ v # 0
TruthyString(v) == v # Absent

\* ------------------------------------------------------------- utilities
Max(a, b) == IF a >= b THEN a ELSE b
Min(a, b) == IF a <= b THEN a ELSE b

RECURSIVE SumSeq(_)
SumSeq(s) == IF s = <<>> THEN 0 ELSE Head(s) + SumSeq(Tail(s))

RemoveAt(S, i) == SubSeq(S, 1, i - 1) \o SubSeq(S, i + 1, Len(S))

\* Array.prototype.findIndex over the tests' outcomes: the first index that
\* passes, 0 for -1
FindIndex(passes) ==
    IF \E i \in DOMAIN passes : passes[i]
    THEN CHOOSE i \in DOMAIN passes :
             passes[i] /\ \A j \in 1 .. i - 1 : ~passes[j]
    ELSE 0

\* new Date('YYYY-MM-DD'): midnight of that day
ParseDate(d) == d * TicksPerDay
\* Date.prototype.setHours(0, 0, 0, 0)
StartOfDay(t) == t - (t % TicksPerDay)
\* Date.prototype.setHours(23, 59, 59, 999)
EndOfDay(t) == StartOfDay(t) + TicksPerDay - 1
\* date.toISOString().split('T')[0]
dateString(t) == t \div TicksPerDay

\* Math.round(a / b) for a >= 0, b > 0: nearest integer, halves upwards
MathRound(a, b) == (2 * a + b) \div (2 * b)

\* a number that need not be an integer: num / den
Rat(n, d) == [num |-> n, den |-> d]

\* a response: the handler that answered, the caller, the HTTP status, the
\* request's parameters and the body's payload (data, or the error text)
Response(op, user, status, args, data) ==
    [op |-> op, user |-> user, status |-> status, args |-> args, data |-> data]

NoSuchId == -2            \* an id no record was ever given
IdInputs == {sessions[i].id : i \in DOMAIN sessions} \cup {NoSuchId}

Session(id, userId, date, duration, notes) ==
    [id |-> id, userId |-> userId, date |-> date, duration |-> duration,
     notes |-> notes]

\* req.body: the owner field a client may slip in (None when it does not),
\* date, duration and notes
Body(userId, date, duration, notes) ==
    [userId |-> userId, date |-> date, duration |-> duration, notes |-> notes]

\* bodies of date and duration alone, and bodies that carry an owner field,
\* notes, one field alone, and durations on either side of the domain
Bodies     == {Body(None, date, duration, Undefined) :
                  date \in DateInputs, duration \in DurationInputs}
WideBodies ==
    {Body(userId, 0, 30, Undefined) : userId \in {None, "u2"}} \cup
    {Body(None, date, 30, Undefined) : date \in DateInputs} \cup
    {Body(None, Absent, duration, Undefined) : duration \in WideDurations} \cup
    {Body(None, Absent, Absent, notes) : notes \in NotesInputs} \cup
    {Body("u2", 1, duration, "n") : duration \in WideDurations}

Durations(S) == [i \in DOMAIN S |-> S[i].duration]

\* ======================================================================
\* database.js (flat file): readDB / writeDB move the whole store, the
\* operations below are what they do to data.studySessions
\* ======================================================================

\* Date.now().toString()
DateNowId == now

\* a getByUserId that forgets the filter
getByUserIdAll(S, userId) == S

\* studySessions.getByUserId
getByUserId(S, userId) == SelectSeq(S, LAMBDA session : session.userId = userId)

\* studySessions.getById: Array.prototype.find, NoRecord for undefined
getById(S, id) ==
    LET i == FindIndex([k \in DOMAIN S |-> S[k].id = id])
    IN  IF i = 0 THEN NoRecord ELSE S[i]

\* studySessions.create
sessionDB_create(S, sessionData) ==
    Append(S, Session(DateNowId, sessionData.userId, sessionData.date,
                      sessionData.duration, sessionData.notes))

\* studySessions.update: { ...session, ...updates }
sessionDB_update(S, id, updates) ==
    LET i == FindIndex([k \in DOMAIN S |-> S[k].id = id])
    IN  IF i = 0 THEN S
        ELSE [S EXCEPT ![i] =
                Session(@.id, @.userId,
                        IF updates.date # Absent THEN updates.date ELSE @.date,
                        IF updates.duration # Absent
                        THEN updates.duration ELSE @.duration,
                        IF updates.notes # Undefined
                        THEN updates.notes ELSE @.notes)]

\* studySessions.delete: splice(sessionIndex, 1)
sessionDB_delete(S, id) ==
    LET i == FindIndex([k \in DOMAIN S |-> S[k].id = id])
    IN  IF i = 0 THEN S ELSE RemoveAt(S, i)

\* studySessions.getByDate
getByDate(S, userId, date) ==
    SelectSeq(S, LAMBDA session : session.userId = userId /\ session.date = date)

\* parseInt of a JSON number that is an integer
parseInt(v) == v

\* ======================================================================
\* backend-simple/server.js: the flat-file handlers
\* ======================================================================

\* GET /api/study-sessions
GetStudySessions(u) ==
    /\ variant = "file"
    /\ res' = Response("list", u, 200, <<>>, getByUserId(sessions, u))
    /\ UNCHANGED <<variant, now, sessions, nextId, users, nextToken>>

\* a POST handler that lets the body name the owner
PostStudySessionBodyOwner(u, body) ==
    /\ variant = "file"
    /\ IF ~TruthyString(body.date) \/ ~TruthyNumber(body.duration)
       THEN /\ res' = Response("create", u, 400, <<>>,
                               "Date and duration are required")
            /\ UNCHANGED sessions
       ELSE /\ sessions' = sessionDB_create(sessions,
                              [userId |-> IF body.userId # None
                                          THEN body.userId ELSE u,
                               date |-> body.date,
                               duration |-> parseInt(body.duration),
                               notes |-> IF body.notes = Undefined
                                         THEN "" ELSE body.notes])
            /\ res' = Response("create", u, 201, <<>>,
                               sessions'[Len(sessions')])
    /\ UNCHANGED <<variant, now, nextId, users, nextToken>>

\* POST /api/study-sessions
PostStudySession(u, body) ==
    /\ variant = "file"
    /\ IF ~TruthyString(body.date) \/ ~TruthyNumber(body.duration)
       THEN /\ res' = Response("create", u, 400, <<>>,
                               "Date and duration are required")
            /\ UNCHANGED sessions
       ELSE /\ sessions' = sessionDB_create(sessions,
                              [userId |-> u, date |-> body.date,
                               duration |-> parseInt(body.duration),
                               notes |-> IF body.notes = Undefined
                                         THEN "" ELSE body.notes])
            /\ res' = Response("create", u, 201, <<>>,
                               sessions'[Len(sessions')])
    /\ UNCHANGED <<variant, now, nextId, users, nextToken>>

\* PUT /api/study-sessions/:id
PutStudySession(u, id, body) ==
    /\ variant = "file"
    /\ LET session == getById(sessions, id)
           updates == [date |-> IF TruthyString(body.date)
                                THEN body.date ELSE Absent,
                       duration |-> IF TruthyNumber(body.duration)
                                    THEN parseInt(body.duration) ELSE Absent,
                       notes |-> body.notes]
       IN  IF session = NoRecord \/ session.userId # u
           THEN /\ res' = Response("update", u, 404, <<id>>,
                                   "Study session not found")
                /\ UNCHANGED sessions
           ELSE /\ sessions' = sessionDB_update(sessions, id, updates)
                /\ res' = Response("update", u, 200, <<id>>,
                                   getById(sessions', id))
    /\ UNCHANGED <<variant, now, nextId, users, nextToken>>

\* a DELETE handler that forgets to compare session.userId with the caller
DeleteStudySessionNoOwnerCheck(u, id) ==
    /\ variant = "file"
    /\ LET session == getById(sessions, id)
       IN  IF session = NoRecord
           THEN /\ res' = Response("delete", u, 404, <<id>>,
                                   "Study session not found")
                /\ UNCHANGED sessions
           ELSE /\ sessions' = sessionDB_delete(sessions, id)
                /\ res' = Response("delete", u, 200, <<id>>, session)
    /\ UNCHANGED <<variant, now, nextId, users, nextToken>>

\* DELETE /api/study-sessions/:id
DeleteStudySession(u, id) ==
    /\ variant = "file"
    /\ LET session == getById(sessions, id)
       IN  IF session = NoRecord \/ session.userId # u
           THEN /\ res' = Response("delete", u, 404, <<id>>,
                                   "Study session not found")
                /\ UNCHANGED sessions
           ELSE /\ sessions' = sessionDB_delete(sessions, id)
                /\ res' = Response("delete", u, 200, <<id>>, session)
    /\ UNCHANGED <<variant, now, nextId, users, nextToken>>

\* GET /api/study-sessions/date/:date
GetStudySessionsByDate(u, date) ==
    /\ variant = "file"
    /\ res' = Response("bydate", u, 200, <<date>>, getByDate(sessions, u, date))
    /\ UNCHANGED <<variant, now, sessions, nextId, users, nextToken>>

\* GET /api/study-sessions/stats: the payload
FileStats(S, u) ==
    LET userSessions  == getByUserId(S, u)
        totalSessions == Len(userSessions)
        totalDuration == SumSeq(Durations(userSessions))
        averageDuration == IF totalSessions > 0
                           THEN Rat(MathRound(totalDuration, totalSessions), 1)
                           ELSE Rat(0, 1)
    IN  [totalSessions   |-> totalSessions,
         totalDuration   |-> totalDuration,
         averageDuration |-> averageDuration]

\* GET /api/study-sessions/stats
GetStats(u) ==
    /\ variant = "file"
    /\ res' = Response("stats", u, 200, <<Absent, Absent>>, FileStats(sessions, u))
    /\ UNCHANGED <<variant, now, sessions, nextId, users, nextToken>>

\* ======================================================================
\* database.js users and backend-simple/server.js: registration, login and
\* the token gate of the flat-file variant
\* ======================================================================

Emails    == {"a", "b"}
Passwords == {"p", "q"}

User(id, name, email, password, token) ==
    [id |-> id, name |-> name, email |-> email, password |-> password,
     token |-> token]

\* crypto.createHash('sha256').update(password).digest('hex')
hashPassword(password) == <<"sha256", password>>

\* crypto.randomBytes(32).toString('hex'): 256 random bits, a value that
\* was not issued before
generateToken == nextToken

\* Date.now().toString() of users.create
UserNowId == ToString(now)

\* users.getByEmail
getByEmail(U, email) ==
    LET i == FindIndex([k \in DOMAIN U |-> U[k].email = email])
    IN  IF i = 0 THEN NoRecord ELSE U[i]

\* users.create
userDB_create(U, userData) ==
    Append(U, User(UserNowId, userData.name, userData.email,
                   userData.password, userData.token))

\* users.update with updates = { token }
userDB_update(U, id, updates) ==
    LET i == FindIndex([k \in DOMAIN U |-> U[k].id = id])
    IN  IF i = 0 THEN U ELSE [U EXCEPT ![i].token = updates.token]

\* users.update: the record it returns, data.users[userIndex]
userDB_updated(U, id) ==
    LET i == FindIndex([k \in DOMAIN U |-> U[k].id = id])
    IN  IF i = 0 THEN NoRecord ELSE U[i]

\* a gate that lets any request with a token through as the first user
verifyTokenAny(U, token) ==
    IF token = Absent \/ U = <<>> THEN NoRecord ELSE U[1]

\* verifyToken: the user it sets req.user to, NoRecord when it answers 401
verifyToken(U, token) ==
    LET i == FindIndex([k \in DOMAIN U |-> U[k].token = token])
    IN  IF token = Absent \/ i = 0 THEN NoRecord ELSE U[i]

\* verifyToken: the 401 answers
Unauthorized(op, token) ==
    /\ variant = "file"
    /\ res' = Response(op, None, 401, <<>>,
                       IF token = Absent THEN "No token provided"
                       ELSE "Invalid token")
    /\ UNCHANGED <<variant, now, sessions, nextId, users, nextToken>>

\* { id, name, email } of the auth responses
PublicUser(user) == [id |-> user.id, name |-> user.name, email |-> user.email]

\* POST /api/auth/register
Register(body) ==
    /\ variant = "file"
    /\ IF body.name = Undefined \/ body.email = Undefined
          \/ body.password = Undefined
       THEN /\ res' = Response("register", None, 400, <<body.email>>,
                               "Name, email, and password are required")
            /\ UNCHANGED <<users, nextToken>>
       ELSE IF getByEmail(users, body.email) # NoRecord
       THEN /\ res' = Response("register", None, 400, <<body.email>>,
                               "User with this email already exists")
            /\ UNCHANGED <<users, nextToken>>
       ELSE /\ users' = userDB_create(users,
                            [name |-> body.name, email |-> body.email,
                             password |-> hashPassword(body.password),
                             token |-> generateToken])
            /\ nextToken' = nextToken + 1
            /\ LET createdUser == users'[Len(users')]
               IN  res' = Response("register", createdUser.id, 201,
                                   <<body.email>>,
                                   [user  |-> PublicUser(createdUser),
                                    token |-> createdUser.token])
    /\ UNCHANGED <<variant, now, sessions, nextId>>

\* POST /api/auth/login
Login(body) ==
    /\ variant = "file"
    /\ LET user == getByEmail(users, body.email)
       IN  IF body.email = Undefined \/ body.password = Undefined
           THEN /\ res' = Response("login", None, 400, <<body.email>>,
                                   "Email and password are required")
                /\ UNCHANGED <<users, nextToken>>
           ELSE IF user = NoRecord
                   \/ user.password # hashPassword(body.password)
           THEN /\ res' = Response("login", None, 401, <<body.email>>,
                                   "Invalid email or password")
                /\ UNCHANGED <<users, nextToken>>
           ELSE /\ users' = userDB_update(users, user.id,
                                          [token |-> generateToken])
                /\ nextToken' = nextToken + 1
                /\ LET updatedUser == userDB_updated(users', user.id)
                   IN  res' = Response("login", updatedUser.id, 200,
                                       <<body.email>>,
                                       [user  |-> PublicUser(updatedUser),
                                        token |-> updatedUser.token])
    /\ UNCHANGED <<variant, now, sessions, nextId>>

\* GET /api/auth/me, with req.user = user
GetMe(user) ==
    /\ variant = "file"
    /\ res' = Response("me", user.id, 200, <<>>, PublicUser(user))
    /\ UNCHANGED <<variant, now, sessions, nextId, users, nextToken>>

\* ======================================================================
\* models/StudySession.js (document variant): schema and statics
\* ======================================================================

\* studySessionSchema.duration: required, min 1, max 1440
ValidDuration(duration) ==
    duration # Absent /\ duration >= MinDuration /\ duration <= MaxDuration

\* find({ user: userId })
findByUser(S, userId) == SelectSeq(S, LAMBDA session : session.userId = userId)

\* a query that forgets to sort
SortByDateDescNone(S) == S

\* .sort({ date: -1 }): most recent first, equal dates in stored order
RECURSIVE SortByDateDesc(_)
SortByDateDesc(S) ==
    IF S = <<>> THEN <<>>
    ELSE LET m == CHOOSE i \in DOMAIN S :
                    /\ \A j \in DOMAIN S : S[j].date <= S[i].date
                    /\ \A j \in 1 .. i - 1 : S[j].date < S[i].date
         IN  <<S[m]>> \o SortByDateDesc(RemoveAt(S, m))

\* a $match that forgets the owner
MatchStageAnyOwner(S, userId, startDate, endDate) ==
    SelectSeq(S, LAMBDA session :
        (TruthyString(startDate) /\ TruthyString(endDate))
            => /\ session.date >= ParseDate(startDate)
               /\ session.date <= ParseDate(endDate))

\* a $match with $lt for $lte
MatchStageEndExclusive(S, userId, startDate, endDate) ==
    SelectSeq(S, LAMBDA session :
        /\ session.userId = userId
        /\ (TruthyString(startDate) /\ TruthyString(endDate))
              => /\ session.date >= ParseDate(startDate)
                 /\ session.date < ParseDate(endDate))

\* { $match: matchStage }: the owner's sessions, inside [startDate, endDate]
\* when both are given
MatchStage(S, userId, startDate, endDate) ==
    SelectSeq(S, LAMBDA session :
        /\ session.userId = userId
        /\ (TruthyString(startDate) /\ TruthyString(endDate))
              => /\ session.date >= ParseDate(startDate)
                 /\ session.date <= ParseDate(endDate))

\* studySessionSchema.statics.getUserStats (averageQuality left out: the
\* model carries no quality field)
StudySession_getUserStats(S, userId, startDate, endDate) ==
    LET matched == MatchStage(S, userId, startDate, endDate)
    IN  IF Len(matched) = 0
        THEN [totalSessions |-> 0, totalDuration |-> 0,
              averageDuration |-> Rat(0, 1)]
        ELSE [totalSessions   |-> Len(matched),
              totalDuration   |-> SumSeq(Durations(matched)),
              averageDuration |-> Rat(SumSeq(Durations(matched)), Len(matched))]

\* the loop without the closing maxStreak = Math.max(maxStreak, tempStreak)
RECURSIVE StreakLoopNoFinalMax(_, _, _, _, _, _)
StreakLoopNoFinalMax(found, currentDate, i, currentStreak, maxStreak, tempStreak) ==
    IF i >= Len(found)
    THEN [currentStreak |-> currentStreak, maxStreak |-> maxStreak]
    ELSE LET sessionDate  == StartOfDay(found[i + 1].date)
             expectedDate == StartOfDay(currentDate - i * TicksPerDay)
         IN  IF sessionDate = expectedDate
             THEN StreakLoopNoFinalMax(found, currentDate, i + 1,
                             IF i = 0 THEN tempStreak + 1 ELSE currentStreak,
                             maxStreak, tempStreak + 1)
             ELSE StreakLoopNoFinalMax(found, currentDate, i + 1, currentStreak,
                             Max(maxStreak, tempStreak), 0)

\* getUserStreak: the for loop over the sorted sessions, i counted from 0
RECURSIVE StreakLoop(_, _, _, _, _, _)
StreakLoop(found, currentDate, i, currentStreak, maxStreak, tempStreak) ==
    IF i >= Len(found)
    THEN [currentStreak |-> currentStreak,
          maxStreak     |-> Max(maxStreak, tempStreak)]
    ELSE LET sessionDate  == StartOfDay(found[i + 1].date)
             expectedDate == StartOfDay(currentDate - i * TicksPerDay)
         IN  IF sessionDate = expectedDate
             THEN StreakLoop(found, currentDate, i + 1,
                             IF i = 0 THEN tempStreak + 1 ELSE currentStreak,
                             maxStreak, tempStreak + 1)
             ELSE StreakLoop(found, currentDate, i + 1, currentStreak,
                             Max(maxStreak, tempStreak), 0)

\* getUserStreak: today if a session falls on today, yesterday otherwise
StreakAnchor(found) ==
    LET today == StartOfDay(now)
        hasSessionToday == \E k \in DOMAIN found :
                               StartOfDay(found[k].date) = today
    IN  IF hasSessionToday THEN now ELSE now - TicksPerDay

\* studySessionSchema.statics.getUserStreak
StudySession_getUserStreak(S, userId) ==
    LET found == SortByDateDesc(findByUser(S, userId))
    IN  IF Len(found) = 0
        THEN [currentStreak |-> 0, maxStreak |-> 0]
        ELSE StreakLoop(found, StreakAnchor(found), 0, 0, 0, 0)

\* ======================================================================
\* controllers/studySessionController.js: the document-variant handlers
\* ======================================================================

\* StudySession.findOne({ _id: id, user: userId })
findOne(S, id, userId) ==
    LET i == FindIndex([k \in DOMAIN S |->
                          S[k].id = id /\ S[k].userId = userId])
    IN  IF i = 0 THEN NoRecord ELSE S[i]

\* createStudySession
createStudySession(u, body) ==
    /\ variant = "doc"
    /\ LET doc == Session(nextId, u,
                          IF TruthyString(body.date)
                          THEN ParseDate(body.date) ELSE now,
                          body.duration, body.notes)
       IN  IF ~ValidDuration(body.duration)
           THEN /\ res' = Response("create", u, 400, <<>>, "Validation error")
                /\ UNCHANGED <<sessions, nextId>>
           ELSE /\ sessions' = Append(sessions, doc)
                /\ nextId' = nextId + 1
                /\ res' = Response("create", u, 201, <<>>, doc)
    /\ UNCHANGED <<variant, now, users, nextToken>>

\* getStudySessions: the payload, with the default page, limit, sortBy and
\* sortOrder
StudySessionsPage(S, u, startDate, endDate) ==
    LET query == MatchStage(S, u, startDate, endDate)
        page  == SortByDateDesc(query)
    IN  [studySessions |-> SubSeq(page, 1, Min(DefaultLimit, Len(page))),
         totalItems    |-> Len(query)]

\* getStudySessions
getStudySessions(u, startDate, endDate) ==
    /\ variant = "doc"
    /\ res' = Response("list", u, 200, <<startDate, endDate>>,
                       StudySessionsPage(sessions, u, startDate, endDate))
    /\ UNCHANGED <<variant, now, sessions, nextId, users, nextToken>>

\* getStudySessionById
getStudySessionById(u, id) ==
    /\ variant = "doc"
    /\ LET studySession == findOne(sessions, id, u)
       IN  IF studySession = NoRecord
           THEN res' = Response("get", u, 404, <<id>>, "Study session not found")
           ELSE res' = Response("get", u, 200, <<id>>, studySession)
    /\ UNCHANGED <<variant, now, sessions, nextId, users, nextToken>>

\* updateStudySession
updateStudySession(u, id, body) ==
    /\ variant = "doc"
    /\ LET studySession == findOne(sessions, id, u)
           updated == Session(studySession.id, studySession.userId,
                              IF body.date # Absent THEN ParseDate(body.date)
                              ELSE studySession.date,
                              IF body.duration # Absent THEN body.duration
                              ELSE studySession.duration,
                              IF body.notes # Undefined THEN body.notes
                              ELSE studySession.notes)
           i == FindIndex([k \in DOMAIN sessions |-> sessions[k].id = id])
       IN  IF studySession = NoRecord
           THEN /\ res' = Response("update", u, 404, <<id>>,
                                   "Study session not found")
                /\ UNCHANGED sessions
           ELSE IF ~ValidDuration(updated.duration)
           THEN /\ res' = Response("update", u, 400, <<id>>, "Validation error")
                /\ UNCHANGED sessions
           ELSE /\ sessions' = [sessions EXCEPT ![i] = updated]
                /\ res' = Response("update", u, 200, <<id>>, updated)
    /\ UNCHANGED <<variant, now, nextId, users, nextToken>>

\* deleteStudySession: findOneAndDelete({ _id: id, user: userId })
deleteStudySession(u, id) ==
    /\ variant = "doc"
    /\ LET studySession == findOne(sessions, id, u)
           i == FindIndex([k \in DOMAIN sessions |->
                              sessions[k].id = id /\ sessions[k].userId = u])
       IN  IF studySession = NoRecord
           THEN /\ res' = Response("delete", u, 404, <<id>>,
                                   "Study session not found")
                /\ UNCHANGED sessions
           ELSE /\ sessions' = RemoveAt(sessions, i)
                /\ res' = Response("delete", u, 200, <<id>>,
                                   "Study session deleted successfully")
    /\ UNCHANGED <<variant, now, nextId, users, nextToken>>

\* getUserStats: sessionsByDate over the sessions of the last 90 days
CalendarData(S, userId) ==
    LET recentSessions == SelectSeq(S, LAMBDA session :
            /\ session.userId = userId
            /\ session.date >= now - CalendarWindow * TicksPerDay)
        keys == {dateString(recentSessions[i].date) : i \in DOMAIN recentSessions}
    IN  [dateStr \in keys |->
            SumSeq(Durations(SelectSeq(recentSessions, LAMBDA session :
                                          dateString(session.date) = dateStr)))]

\* a payload whose streak is taken over the sessions of the range only
UserStatsStreakInRange(S, u, startDate, endDate) ==
    LET stats  == StudySession_getUserStats(S, u, startDate, endDate)
        streak == StudySession_getUserStreak(
                      MatchStage(S, u, startDate, endDate), u)
    IN  [totalSessions   |-> stats.totalSessions,
         totalDuration   |-> stats.totalDuration,
         averageDuration |-> stats.averageDuration,
         currentStreak   |-> streak.currentStreak,
         maxStreak       |-> streak.maxStreak,
         calendarData    |-> CalendarData(S, u)]

\* getUserStats: the payload, { stats: { ...stats, ...streak }, calendarData }
UserStats(S, u, startDate, endDate) ==
    LET stats  == StudySession_getUserStats(S, u, startDate, endDate)
        streak == StudySession_getUserStreak(S, u)
    IN  [totalSessions   |-> stats.totalSessions,
         totalDuration   |-> stats.totalDuration,
         averageDuration |-> stats.averageDuration,
         currentStreak   |-> streak.currentStreak,
         maxStreak       |-> streak.maxStreak,
         calendarData    |-> CalendarData(S, u)]

\* getUserStats
getUserStats(u, startDate, endDate) ==
    /\ variant = "doc"
    /\ res' = Response("stats", u, 200, <<startDate, endDate>>,
                       UserStats(sessions, u, startDate, endDate))
    /\ UNCHANGED <<variant, now, sessions, nextId, users, nextToken>>

\* getStudySessionsByDate: the payload, newest createdAt first
StudySessionsOfDate(S, u, date) ==
    LET startOfDay == StartOfDay(ParseDate(date))
        endOfDay   == EndOfDay(ParseDate(date))
        found == SelectSeq(S, LAMBDA session :
                     /\ session.userId = u
                     /\ session.date >= startOfDay
                     /\ session.date <= endOfDay)
        studySessions == [i \in DOMAIN found |-> found[Len(found) + 1 - i]]
    IN  [studySessions |-> studySessions,
         totalDuration |-> SumSeq(Durations(studySessions)),
         sessionCount  |-> Len(studySessions)]

\* getStudySessionsByDate
getStudySessionsByDate(u, date) ==
    /\ variant = "doc"
    /\ res' = Response("bydate", u, 200, <<date>>,
                       StudySessionsOfDate(sessions, u, date))
    /\ UNCHANGED <<variant, now, sessions, nextId, users, nextToken>>

\* ======================================================================
\* the system: requests are handled one at a time; a handler runs when no
\* response is waiting to leave, and the clock moves on between requests
\* ======================================================================

NoResponse == Response("none", None, 0, <<>>, NoRecord)

\* a request: method, path below /api as its segments, and bearer token
Request(method, path, token) ==
    [method |-> method, path |-> path, token |-> token]

NoRequest == Request("none", <<>>, Absent)

\* no request is being answered
Idle == res = NoResponse

Tick ==
    /\ now < MaxNow
    /\ now' = now + 1
    /\ UNCHANGED <<variant, sessions, nextId, res, users, nextToken, req, calls>>

\* the response leaves the server
Send ==
    /\ ~Idle
    /\ res' = NoResponse
    /\ UNCHANGED <<variant, now, sessions, nextId, users, nextToken, req, calls>>

Init ==
    /\ variant \in {"file", "doc"}
    /\ now = 0
    /\ sessions = <<>>
    /\ nextId = 1
    /\ res = NoResponse
    /\ users = <<>>
    /\ nextToken = 1
    /\ req = NoRequest
    /\ calls = <<>>

\* the request reaches its handler as it is, past routing and the auth gate,
\* and the handler runs to completion
Direct == UNCHANGED <<req, calls>>

Room == Len(sessions) < MaxSessions /\ nextId <= MaxIds

Next ==
    \/ Idle /\ Tick
    \/ Send
    \/ \E u \in Users : Idle /\ Direct /\ GetStudySessions(u)
    \/ \E u \in Users, body \in Bodies :
          Idle /\ Direct /\ Room /\ PostStudySession(u, body)
    \/ \E u \in Users, id \in IdInputs, body \in Bodies :
          Idle /\ Direct /\ PutStudySession(u, id, body)
    \/ \E u \in Users, id \in IdInputs : Idle /\ Direct /\ DeleteStudySession(u, id)
    \/ \E u \in Users, date \in Days : Idle /\ Direct /\ GetStudySessionsByDate(u, date)
    \/ \E u \in Users : Idle /\ Direct /\ GetStats(u)
    \/ \E u \in Users, body \in Bodies :
          Idle /\ Direct /\ Room /\ createStudySession(u, body)
    \/ \E u \in Users : Idle /\ Direct /\ getStudySessions(u, Absent, Absent)
    \/ \E u \in Users, id \in IdInputs : Idle /\ Direct /\ getStudySessionById(u, id)
    \/ \E u \in Users, id \in IdInputs, body \in Bodies :
          Idle /\ Direct /\ updateStudySession(u, id, body)
    \/ \E u \in Users, id \in IdInputs : Idle /\ Direct /\ deleteStudySession(u, id)
    \/ \E u \in Users, range \in RangeInputs :
          Idle /\ Direct /\ getUserStats(u, range[1], range[2])
    \/ \E u \in Users, date \in Days : Idle /\ Direct /\ getStudySessionsByDate(u, date)

Spec == Init /\ [][Next]_vars

\* ======================================================================
\* the statistics and streak engine on one owner's history: the owner
\* logs sessions on any day of a longer calendar and asks for the
\* statistics, at a moment of the calendar fixed at the start
\* ======================================================================

Owner == "u1"
StreakDays == 0 .. StreakMaxDay

InitStreak ==
    /\ variant = "doc"
    /\ now \in 0 .. TicksPerDay * (StreakMaxDay + 1) - 1
    /\ sessions = <<>>
    /\ nextId = 1
    /\ res = NoResponse
    /\ users = <<>>
    /\ nextToken = 1
    /\ req = NoRequest
    /\ calls = <<>>

NextStreak ==
    \/ Send
    \/ \E date \in StreakDays \cup {Absent}, duration \in {30} :
          /\ Idle /\ Direct
          /\ Len(sessions) < StreakMaxSessions
          /\ createStudySession(Owner, Body(None, date, duration, Undefined))
    \/ Idle /\ Direct /\ getUserStats(Owner, Absent, Absent)

SpecStreak == InitStreak /\ [][NextStreak]_vars

\* ======================================================================
\* the write handlers under bodies of every shape: an owner field slipped
\* in, notes, durations outside the domain
\* ======================================================================

NextBody ==
    \/ Idle /\ Tick
    \/ Send
    \/ \E u \in Users, body \in WideBodies :
          Idle /\ Direct /\ Room /\ PostStudySession(u, body)
    \/ \E u \in Users, id \in IdInputs, body \in WideBodies :
          Idle /\ Direct /\ PutStudySession(u, id, body)
    \/ \E u \in Users, id \in IdInputs : Idle /\ Direct /\ DeleteStudySession(u, id)
    \/ \E u \in Users, body \in WideBodies :
          Idle /\ Direct /\ Room /\ createStudySession(u, body)
    \/ \E u \in Users, id \in IdInputs, body \in WideBodies :
          Idle /\ Direct /\ updateStudySession(u, id, body)
    \/ \E u \in Users, id \in IdInputs : Idle /\ Direct /\ deleteStudySession(u, id)

SpecBody == Init /\ [][NextBody]_vars

\* ======================================================================
\* requests by method and path: the route tables of the two variants in
\* registration order, the token gate in front of the flat-file handlers;
\* the document variant's requests come with the caller its gate set
\* ======================================================================

Route(method, pattern, handler) ==
    [method |-> method, pattern |-> pattern, handler |-> handler]

\* a path segment that is a route parameter, ':id' or ':date'
IsParam(segment) == segment \in {":id", ":date"}

\* a route's path matches when it has the path's length and every segment
\* is a parameter or the path's own
MatchPath(pattern, path) ==
    /\ Len(pattern) = Len(path)
    /\ \A k \in DOMAIN pattern : IsParam(pattern[k]) \/ pattern[k] = path[k]

\* backend-simple/server.js: app.get / app.post / app.put / app.delete
FileRoutes ==
    << Route("POST",   <<"auth", "register">>,              "register"),
       Route("POST",   <<"auth", "login">>,                 "login"),
       Route("GET",    <<"auth", "me">>,                    "me"),
       Route("GET",    <<"study-sessions">>,                "list"),
       Route("POST",   <<"study-sessions">>,                "create"),
       Route("PUT",    <<"study-sessions", ":id">>,         "update"),
       Route("DELETE", <<"study-sessions", ":id">>,         "delete"),
       Route("GET",    <<"study-sessions", "date", ":date">>, "bydate"),
       Route("GET",    <<"study-sessions", "stats">>,       "stats") >>

\* routes/studySessions.js, the router of /api/study-sessions
DocRoutes ==
    << Route("POST",   <<"study-sessions">>,                "create"),
       Route("GET",    <<"study-sessions">>,                "list"),
       Route("GET",    <<"study-sessions", ":id">>,         "get"),
       Route("PUT",    <<"study-sessions", ":id">>,         "update"),
       Route("DELETE", <<"study-sessions", ":id">>,         "delete"),
       Route("GET",    <<"study-sessions", "stats">>,       "stats"),
       Route("GET",    <<"study-sessions", "date", ":date">>, "bydate") >>

\* the handler of the first route, in registration order, that matches
Dispatch(routes, method, path) ==
    LET i == FindIndex([k \in DOMAIN routes |->
                          /\ routes[k].method = method
                          /\ MatchPath(routes[k].pattern, path)])
    IN  IF i = 0 THEN "none" ELSE routes[i].handler

\* the number that a path segment spells, NotANumber when it spells none
NotANumber == -3
SegmentNumbers == NoSuchId .. Max(MaxNow, MaxIds)
SegmentNumber(segment) ==
    IF \E n \in SegmentNumbers : ToString(n) = segment
    THEN CHOOSE n \in SegmentNumbers : ToString(n) = segment
    ELSE NotANumber

\* req.params.id / req.params.date: the last segment of the path
LastParam(path) == IF path = <<>> THEN "" ELSE path[Len(path)]

\* the request bodies: credentials, or a session's date and duration
HttpBody(name, email, password, date, duration) ==
    [name |-> name, email |-> email, password |-> password, userId |-> None,
     date |-> date, duration |-> duration, notes |-> Undefined]

NoBody == HttpBody(Undefined, Undefined, Undefined, Absent, Absent)

\* the requests: method, path and body
HttpRequest(method, path, body) ==
    [method |-> method, path |-> path, body |-> body]

HttpRequests ==
    {HttpRequest("POST", <<"auth", "register">>, body) :
        body \in {HttpBody("n", "a", "p", Absent, Absent),
                  HttpBody("n", "b", "p", Absent, Absent),
                  HttpBody(Undefined, "a", "p", Absent, Absent)}} \cup
    {HttpRequest("POST", <<"auth", "login">>, body) :
        body \in {HttpBody(Undefined, "a", "p", Absent, Absent),
                  HttpBody(Undefined, "b", "p", Absent, Absent),
                  HttpBody(Undefined, "a", "q", Absent, Absent),
                  HttpBody(Undefined, "a", Undefined, Absent, Absent)}} \cup
    {HttpRequest("GET", path, NoBody) :
        path \in {<<"auth", "me">>, <<"study-sessions">>,
                  <<"study-sessions", "stats">>,
                  <<"study-sessions", "date", ToString(0)>>}} \cup
    {HttpRequest("POST", <<"study-sessions">>,
                 HttpBody(Undefined, Undefined, Undefined, 0, 30)),
     HttpRequest("DELETE", <<"auth", "me">>, NoBody)} \cup
    {HttpRequest("GET", <<"study-sessions", ToString(id)>>, NoBody) :
        id \in IdInputs} \cup
    {HttpRequest("PUT", <<"study-sessions", ToString(id)>>,
                 HttpBody(Undefined, Undefined, Undefined, Absent, 45)) :
        id \in IdInputs} \cup
    {HttpRequest("DELETE", <<"study-sessions", ToString(id)>>, NoBody) :
        id \in IdInputs}

\* Authorization: Bearer <token>: none, one never issued, the issued ones
TokenInputs == {Absent, 0} \cup (1 .. nextToken - 1)

\* no route matches: the framework's 404
NotFound ==
    /\ res' = Response("none", None, 404, <<>>, "Cannot " \o req'.method)
    /\ UNCHANGED <<variant, now, sessions, nextId, users, nextToken>>

GatedHandlers == {"me", "list", "create", "update", "delete", "bydate", "stats"}

\* a request to the flat-file server
HttpFile(method, path, token, body) ==
    /\ variant = "file"
    /\ req' = Request(method, path, token)
    /\ LET handler == Dispatch(FileRoutes, method, path)
           user    == verifyToken(users, token)
           param   == SegmentNumber(LastParam(path))
       IN  CASE handler = "none"     -> NotFound
             [] handler = "register" ->
                    /\ Len(users) < MaxUsers /\ nextToken <= MaxTokens
                    /\ Register(body)
             [] handler = "login"    ->
                    nextToken <= MaxTokens /\ Login(body)
             [] handler \in GatedHandlers /\ user = NoRecord ->
                    Unauthorized(handler, token)
             [] handler = "me" /\ user # NoRecord -> GetMe(user)
             [] handler = "list" /\ user # NoRecord ->
                    GetStudySessions(user.id)
             [] handler = "create" /\ user # NoRecord ->
                    /\ Len(sessions) < HttpMaxSessions
                    /\ PostStudySession(user.id, body)
             [] handler = "update" /\ user # NoRecord ->
                    PutStudySession(user.id, param, body)
             [] handler = "delete" /\ user # NoRecord ->
                    DeleteStudySession(user.id, param)
             [] handler = "bydate" /\ user # NoRecord ->
                    GetStudySessionsByDate(user.id, param)
             [] handler = "stats" /\ user # NoRecord -> GetStats(user.id)

\* a cast of req.params.id to an ObjectId that fails: the handler's catch
CastError(op, u) ==
    /\ variant = "doc"
    /\ res' = Response(op, u, 500, <<>>, "Server error")
    /\ UNCHANGED <<variant, now, sessions, nextId, users, nextToken>>

\* a request to the document server that its gate let through as u
HttpDoc(method, path, u, body) ==
    /\ variant = "doc"
    /\ req' = Request(method, path, Absent)
    /\ LET handler == Dispatch(DocRoutes, method, path)
           param   == SegmentNumber(LastParam(path))
       IN  CASE handler = "none"   -> NotFound
             [] handler = "create" ->
                    /\ Len(sessions) < HttpMaxSessions /\ nextId <= MaxIds
                    /\ createStudySession(u, body)
             [] handler = "list"   -> getStudySessions(u, Absent, Absent)
             [] handler \in {"get", "update", "delete"}
                  /\ param = NotANumber -> CastError(handler, u)
             [] handler = "get" /\ param # NotANumber ->
                    getStudySessionById(u, param)
             [] handler = "update" /\ param # NotANumber ->
                    updateStudySession(u, param, body)
             [] handler = "delete" /\ param # NotANumber ->
                    deleteStudySession(u, param)
             [] handler = "stats"  -> getUserStats(u, Absent, Absent)
             [] handler = "bydate" -> getStudySessionsByDate(u, param)

NextHttp ==
    \/ Idle /\ now < HttpMaxNow /\ Tick
    \/ Send
    \/ \E r \in HttpRequests, token \in TokenInputs :
          Idle /\ HttpFile(r.method, r.path, token, r.body) /\ UNCHANGED calls
    \/ \E r \in HttpRequests, u \in Users :
          Idle /\ HttpDoc(r.method, r.path, u, r.body) /\ UNCHANGED calls

SpecHttp == Init /\ [][NextHttp]_vars

\* ======================================================================
\* the flat-file server with its requests in flight together: a handler
\* gives way at every await, and every database.js operation is a readDB
\* of the whole file followed, for the writing ones, by a writeDB of the
\* whole file.  A call is at "check" (validation and the handler's lookup),
\* at "read" (the writing operation's readDB), at "write" (its change and
\* writeDB) or "answered".  The callers are past the token gate.
\* ======================================================================

\* readDB: the whole file
ReadDB == [users |-> users, sessions |-> sessions]

NoData == [users |-> <<>>, sessions |-> <<>>]

Call(op, user, id, body) ==
    [op |-> op, user |-> user, id |-> id, body |-> body, pc |-> "check",
     data |-> NoData, userId |-> Undefined, token |-> Absent, status |-> 0,
     made |-> NoRecord]

\* the response of call c
Answer(c, status) ==
    calls' = [calls EXCEPT ![c].pc = "answered", ![c].status = status]

AsyncRequests ==
    {HttpRequest(op, <<>>, HttpBody("n", "a", "p", Absent, Absent)) :
        op \in {"register", "login"}} \cup
    {HttpRequest("create", <<>>,
                 HttpBody(Undefined, Undefined, Undefined, 0, 30)),
     HttpRequest("update", <<>>,
                 HttpBody(Undefined, Undefined, Undefined, Absent, 45)),
     HttpRequest("delete", <<>>, NoBody)}

\* a request arrives
Arrive(op, u, id, body) ==
    /\ variant = "file"
    /\ Len(calls) < MaxCalls
    /\ calls' = Append(calls, Call(op, u, id, body))
    /\ UNCHANGED <<variant, now, sessions, nextId, res, users, nextToken, req>>

\* the handler up to the await of its writing operation: validation, and
\* getByEmail / getById with their own readDB
AsyncCheck(c) ==
    /\ calls[c].pc = "check"
    /\ LET call == calls[c]
           body == call.body
           user == getByEmail(users, body.email)
           session == getById(sessions, call.id)
       IN  CASE call.op = "register" ->
                  IF body.name = Undefined \/ body.email = Undefined
                     \/ body.password = Undefined \/ user # NoRecord
                  THEN Answer(c, 400) /\ UNCHANGED nextToken
                  ELSE /\ nextToken <= MaxTokens
                       /\ calls' = [calls EXCEPT ![c].pc = "read",
                                                 ![c].token = generateToken]
                       /\ nextToken' = nextToken + 1
             [] call.op = "login" ->
                  IF body.email = Undefined \/ body.password = Undefined
                  THEN Answer(c, 400) /\ UNCHANGED nextToken
                  ELSE IF user = NoRecord
                          \/ user.password # hashPassword(body.password)
                  THEN Answer(c, 401) /\ UNCHANGED nextToken
                  ELSE /\ nextToken <= MaxTokens
                       /\ calls' = [calls EXCEPT ![c].pc = "read",
                                                 ![c].userId = user.id,
                                                 ![c].token = generateToken]
                       /\ nextToken' = nextToken + 1
             [] call.op = "create" ->
                  /\ IF ~TruthyString(body.date) \/ ~TruthyNumber(body.duration)
                     THEN Answer(c, 400)
                     ELSE calls' = [calls EXCEPT ![c].pc = "read"]
                  /\ UNCHANGED nextToken
             [] call.op \in {"update", "delete"} ->
                  /\ IF session = NoRecord \/ session.userId # call.user
                     THEN Answer(c, 404)
                     ELSE calls' = [calls EXCEPT ![c].pc = "read"]
                  /\ UNCHANGED nextToken
    /\ UNCHANGED <<variant, now, sessions, nextId, res, users, req>>

\* const data = await readDB() of users.create, users.update,
\* studySessions.create, studySessions.update, studySessions.delete
AsyncRead(c) ==
    /\ calls[c].pc = "read"
    /\ calls' = [calls EXCEPT ![c].pc = "write", ![c].data = ReadDB]
    /\ UNCHANGED <<variant, now, sessions, nextId, res, users, nextToken, req>>

\* writeDB: the whole file
WriteDB(data) == users' = data.users /\ sessions' = data.sessions

\* the change to the data read, await writeDB(data), and the response
AsyncWrite(c) ==
    /\ calls[c].pc = "write"
    /\ LET call == calls[c]
           data == call.data
           body == call.body
       IN  CASE call.op = "register" ->
                  LET created == userDB_create(data.users,
                                     [name |-> body.name, email |-> body.email,
                                      password |-> hashPassword(body.password),
                                      token |-> call.token])
                  IN  /\ WriteDB([data EXCEPT !.users = created])
                      /\ calls' = [calls EXCEPT
                                      ![c].pc = "answered", ![c].status = 201,
                                      ![c].made = created[Len(created)]]
             [] call.op = "login" ->
                  IF userDB_updated(data.users, call.userId) = NoRecord
                  THEN Answer(c, 500) /\ UNCHANGED <<users, sessions>>
                  ELSE /\ WriteDB([data EXCEPT !.users =
                                      userDB_update(data.users, call.userId,
                                                    [token |-> call.token])])
                       /\ Answer(c, 200)
             [] call.op = "create" ->
                  LET created == sessionDB_create(data.sessions,
                                     [userId |-> call.user, date |-> body.date,
                                      duration |-> parseInt(body.duration),
                                      notes |-> IF body.notes = Undefined
                                                THEN "" ELSE body.notes])
                  IN  /\ WriteDB([data EXCEPT !.sessions = created])
                      /\ calls' = [calls EXCEPT
                                      ![c].pc = "answered", ![c].status = 201,
                                      ![c].made = created[Len(created)]]
             [] call.op = "update" ->
                  IF getById(data.sessions, call.id) = NoRecord
                  THEN Answer(c, 200) /\ UNCHANGED <<users, sessions>>
                  ELSE /\ WriteDB([data EXCEPT !.sessions =
                                      sessionDB_update(data.sessions, call.id,
                                          [date |-> IF TruthyString(body.date)
                                                    THEN body.date ELSE Absent,
                                           duration |->
                                               IF TruthyNumber(body.duration)
                                               THEN parseInt(body.duration)
                                               ELSE Absent,
                                           notes |-> body.notes])])
                       /\ calls' = [calls EXCEPT
                                      ![c].pc = "answered", ![c].status = 200,
                                      ![c].made = getById(sessions', call.id)]
             [] call.op = "delete" ->
                  IF getById(data.sessions, call.id) = NoRecord
                  THEN Answer(c, 200) /\ UNCHANGED <<users, sessions>>
                  ELSE /\ WriteDB([data EXCEPT !.sessions =
                                      sessionDB_delete(data.sessions, call.id)])
                       /\ calls' = [calls EXCEPT
                                      ![c].pc = "answered", ![c].status = 200,
                                      ![c].made = getById(data.sessions,
                                                          call.id)]
    /\ UNCHANGED <<variant, now, nextId, res, nextToken, req>>

InitAsync == Init /\ variant = "file"

NextAsync ==
    \/ now < HttpMaxNow /\ Tick
    \/ \E r \in AsyncRequests, id \in IdInputs :
          Arrive(r.method, "u1", id, r.body)
    \/ \E c \in DOMAIN calls : AsyncCheck(c)
    \/ \E c \in DOMAIN calls : AsyncRead(c)
    \/ \E c \in DOMAIN calls : AsyncWrite(c)

SpecAsync == InitAsync /\ [][NextAsync]_vars

\* ======================================================================
\* properties
\* ======================================================================

\* the calendar day of a timestamp, and the days on which u has a session
DayOf(t) == t \div TicksPerDay
Today == DayOf(now)
OwnerDays(S, u) == {DayOf(S[i].date) : i \in {j \in DOMAIN S : S[j].userId = u}}

\* the last request was answered by the document variant's statistics handler
StatsAnswered == variant = "doc" /\ res.op = "stats" /\ res.status = 200

\* today when a session falls on today, yesterday otherwise
AnchorDay(D) == IF Today \in D THEN Today ELSE Today - 1

\* D holds the k days ending at the anchor, not the day before them, and
\* nothing after the anchor
RunAtAnchor(D, k) ==
    /\ \A j \in 0 .. k - 1 : AnchorDay(D) - j \in D
    /\ AnchorDay(D) - k \notin D
    /\ \A d \in D : d <= AnchorDay(D)

\* the length of the longest run of consecutive days in D
LongestRun(D) ==
    LET runs == {n \in 0 .. Cardinality(D) :
                    n = 0 \/ \E d \in D : \A j \in 0 .. n - 1 : d + j \in D}
    IN  CHOOSE n \in runs : \A m \in runs : m <= n

\* C1: when the owner's session days hold the k consecutive days that end at
\* the anchor (today if a session falls on today, else yesterday), not the
\* day before them and no later day, getUserStreak returns currentStreak = k.
C1_CurrentStreakIsRunAtAnchor ==
    StatsAnswered =>
        \A k \in 1 .. Len(sessions) :
            RunAtAnchor(OwnerDays(sessions, res.user), k)
                => res.data.currentStreak = k

\* C2: maxStreak is the length of the longest run of consecutive calendar
\* days that each have a session, anywhere in the owner's history.
C2_MaxStreakIsLongestRun ==
    StatsAnswered =>
        res.data.maxStreak = LongestRun(OwnerDays(sessions, res.user))

\* C3: every result of getUserStreak has maxStreak >= currentStreak.
C3_MaxStreakAtLeastCurrent ==
    StatsAnswered => res.data.maxStreak >= res.data.currentStreak

\* C3 witness: a streak result over several sessions whose first comparison
\* matched, so that currentStreak is not 0
C3_Witness ==
    /\ StatsAnswered
    /\ Len(sessions) >= 2
    /\ res.data.currentStreak >= 1

\* what the statistics of u are when asked without a range
StreakOf(u) == StudySession_getUserStreak(sessions, u)
TotalsOf(u) == StudySession_getUserStats(sessions, u, Absent, Absent)

\* the step stores a further session on a calendar day on which its owner
\* already had one
AddsToDayWithSession ==
    /\ Idle
    /\ res'.op = "create" /\ res'.status = 201
    /\ DayOf(res'.data.date) \in OwnerDays(sessions, res'.user)

\* C4: a further session on a day that already has one leaves currentStreak
\* and maxStreak unchanged, while totalSessions grows by 1 and totalDuration
\* by the session's duration.
C4_SameDaySessionKeepsStreak ==
    [][\A u \in Users :
          (AddsToDayWithSession /\ res'.user = u) =>
              /\ StreakOf(u)' = StreakOf(u)
              /\ TotalsOf(u)'.totalSessions = TotalsOf(u).totalSessions + 1
              /\ TotalsOf(u)'.totalDuration
                    = TotalsOf(u).totalDuration + res'.data.duration]_vars

\* the indices of u's sessions in the store, and the sum of the durations
\* of the sessions at a set of indices
OwnSessions(u) == {i \in DOMAIN sessions : sessions[i].userId = u}

RECURSIVE SumDurations(_)
SumDurations(I) ==
    IF I = {} THEN 0
    ELSE LET i == CHOOSE j \in I : TRUE
         IN  sessions[i].duration + SumDurations(I \ {i})

InRange(u, startDate, endDate) ==
    {i \in OwnSessions(u) : /\ sessions[i].date >= ParseDate(startDate)
                            /\ sessions[i].date <= ParseDate(endDate)}

Nearest(a, b) ==
    CHOOSE r \in 0 .. a : -b < 2 * (r * b - a) /\ 2 * (r * b - a) <= b

\* C7: the average duration of a statistics response is totalDuration /
\* totalSessions rounded to the nearest integer when totalSessions > 0 and
\* 0 when totalSessions = 0, in both variants.
C7_AverageIsRounded ==
    res.op = "stats" =>
        LET average == res.data.averageDuration
        IN  IF res.data.totalSessions > 0
            THEN average.num = average.den * Nearest(res.data.totalDuration,
                                                     res.data.totalSessions)
            ELSE average.num = 0

\* C8: the streak of a statistics response is the same for every choice of
\* startDate / endDate on the same store at the same time.
C8_StreakIgnoresRange ==
    StatsAnswered =>
        \A range \in RangeInputs :
            LET other == UserStats(sessions, res.user, range[1], range[2])
            IN  /\ other.currentStreak = res.data.currentStreak
                /\ other.maxStreak = res.data.maxStreak

\* C8 witness: statistics over a range that leaves out a session of a
\* history whose streak is not 0
C8_Witness ==
    /\ StatsAnswered
    /\ res.args[1] # Absent /\ res.args[2] # Absent
    /\ res.data.totalSessions < Cardinality(OwnSessions(res.user))
    /\ res.data.maxStreak >= 1

\* a request is answered in this step
Answered == Idle /\ ~Idle'

\* the store with only u's sessions in it
OwnOnly(S, u) == SelectSeq(S, LAMBDA session : session.userId = u)

\* what the list, by-date and statistics requests of u return on store S
View(S, u) ==
    IF variant = "file"
    THEN [list   |-> getByUserId(S, u),
          bydate |-> [date \in Days |-> getByDate(S, u, date)],
          stats  |-> FileStats(S, u)]
    ELSE [list   |-> StudySessionsPage(S, u, Absent, Absent),
          bydate |-> [date \in Days |-> StudySessionsOfDate(S, u, date)],
          stats  |-> [range \in RangeInputs |->
                         UserStats(S, u, range[1], range[2])]]

\* the payload of the read request that res answers, computed on store S
ReadPayload(S) ==
    CASE res.op = "list" /\ variant = "file" -> getByUserId(S, res.user)
      [] res.op = "list" /\ variant = "doc" ->
            StudySessionsPage(S, res.user, res.args[1], res.args[2])
      [] res.op = "bydate" /\ variant = "file" ->
            getByDate(S, res.user, res.args[1])
      [] res.op = "bydate" /\ variant = "doc" ->
            StudySessionsOfDate(S, res.user, res.args[1])
      [] res.op = "stats" /\ variant = "file" -> FileStats(S, res.user)
      [] res.op = "stats" /\ variant = "doc" ->
            UserStats(S, res.user, res.args[1], res.args[2])

\* a list, by-date or statistics response is what the handler computes from
\* the caller's own sessions alone
ReadsOwnOnly ==
    res.op \in {"list", "bydate", "stats"} =>
        res.data = ReadPayload(OwnOnly(sessions, res.user))

\* C9: the session list, the by-date list and the statistics returned to U
\* are computed only from U's sessions: a create, update or delete request
\* of another owner never changes what U gets back.
C9_OwnerIsolation ==
    [][Answered =>
          /\ ReadsOwnOnly'
          /\ res'.op \in {"create", "update", "delete"} =>
                \A u \in Users \ {res'.user} :
                    View(sessions', u) = View(sessions, u)]_vars

\* C9 witness: a session of u2 has just been deleted at u2's request while
\* u1 holds a session
C9_Witness ==
    /\ res.op = "delete" /\ res.status = 200 /\ res.user = "u2"
    /\ OwnSessions("u1") # {}

\* how many times record s occurs in store S
Count(S, s) == Cardinality({i \in DOMAIN S : S[i] = s})

\* no session with this id belongs to u
NotOwned(id, u) ==
    \A i \in DOMAIN sessions : sessions[i].id = id => sessions[i].userId # u

Owners(S) == [i \in DOMAIN S |-> <<S[i].id, S[i].userId>>]

\* the step keeps every stored session's id and owner: the store's ids and
\* owners are the same, or one more at the end, or one less
OwnersKept ==
    \/ Owners(sessions') = Owners(sessions)
    \/ /\ Len(sessions') = Len(sessions) + 1
       /\ SubSeq(Owners(sessions'), 1, Len(sessions)) = Owners(sessions)
    \/ \E i \in DOMAIN sessions :
          Owners(sessions') = RemoveAt(Owners(sessions), i)

\* session new is session old but for fields that the body supplies
SameButSupplied(old, new, body) ==
    /\ new.id = old.id
    /\ new.userId = old.userId
    /\ new.date # old.date => body.date # Absent
    /\ new.duration # old.duration => body.duration # Absent
    /\ new.notes # old.notes => body.notes # Undefined

C12_StoredDurationInDomain ==
    /\ \A i \in DOMAIN sessions :
          /\ sessions[i].duration >= MinDuration
          /\ sessions[i].duration <= MaxDuration
    /\ (res.op \in {"create", "update"} /\ res.status \in {200, 201}) =>
          /\ res.data.duration >= MinDuration
          /\ res.data.duration <= MaxDuration

\* C13: when the owner's only session is dated after today, getUserStreak
\* returns currentStreak = 0 and maxStreak = 1, the session forming a run of
\* length 1.
C13_FutureOnlySession ==
    (/\ StatsAnswered
     /\ Cardinality(OwnSessions(res.user)) = 1
     /\ \A i \in OwnSessions(res.user) : DayOf(sessions[i].date) > Today)
        => /\ res.data.currentStreak = 0
           /\ res.data.maxStreak = 1

\* store S with its sessions in the order f
Reordered(S, f) == [i \in DOMAIN S |-> S[f[i]]]

\* C14: the streak depends on the owner's session dates and on today only:
\* the same sessions stored in any other order give the same currentStreak
\* and maxStreak, and evaluating the statistics leaves the store unchanged.
C14_StreakOrderIndependent ==
    [][(Answered /\ res'.op = "stats") =>
          /\ sessions' = sessions
          /\ \A f \in Permutations(DOMAIN sessions) :
                LET streak == StudySession_getUserStreak(
                                  Reordered(sessions, f), res'.user)
                IN  /\ streak.currentStreak = res'.data.currentStreak
                    /\ streak.maxStreak = res'.data.maxStreak]_vars

\* C14 witness: a streak over sessions that were not stored newest first
C14_Witness ==
    /\ StatsAnswered
    /\ res.data.maxStreak >= 2
    /\ \E i, j \in DOMAIN sessions : i < j /\ sessions[i].date < sessions[j].date

\* README, API Endpoints: the requests marked 'requires token'
RequiresToken(r) ==
    \/ r.method = "GET" /\ r.path = <<"auth", "me">>
    \/ r.method \in {"GET", "POST"} /\ r.path = <<"study-sessions">>
    \/ /\ r.method \in {"PUT", "DELETE"}
       /\ Len(r.path) = 2 /\ r.path[1] = "study-sessions"
    \/ r.method = "GET" /\ r.path = <<"study-sessions", "stats">>
    \/ /\ r.method = "GET"
       /\ Len(r.path) = 3 /\ r.path[1] = "study-sessions"
       /\ r.path[2] = "date"

\* the stored users whose current token is t
Holders(t) == {i \in DOMAIN users : users[i].token = t}

\* C15: an endpoint documented as 'requires token' answers 401 and leaves
\* users and sessions unchanged when the request carries no token or one
\* that is not the current token of a stored user; otherwise its handler
\* runs with req.user the user who holds the token.
C15_TokenRequired ==
    [][(Answered /\ variant = "file" /\ RequiresToken(req')) =>
          IF req'.token = Absent \/ Holders(req'.token) = {}
          THEN /\ res'.status = 401
               /\ users' = users
               /\ sessions' = sessions
          ELSE /\ res'.status # 401
               /\ \E i \in Holders(req'.token) :
                     res'.user = users[i].id]_vars

\* C15 witness: a token that was issued and is no longer any user's current
\* token is turned away from a session endpoint while a session is stored
C15_Witness ==
    /\ variant = "file" /\ res.status = 401
    /\ req.path = <<"study-sessions">>
    /\ req.token \in 1 .. nextToken - 1
    /\ sessions # <<>>

\* C16: an authenticated GET /study-sessions/stats is handled by the
\* statistics handler and GET /study-sessions/date/:date by the by-date
\* handler, routes being matched in registration order.
C16_StatsRouteReachesStats ==
    (~Idle /\ req.method = "GET" /\ res.status # 401) =>
        /\ req.path = <<"study-sessions", "stats">> => res.op = "stats"
        /\ (Len(req.path) = 3 /\ req.path[2] = "date") => res.op = "bydate"

\* C19: in the flat-file store no two stored sessions share an id and no
\* two stored users share an id.
C19_ClockIdsUnique ==
    variant = "file" =>
        /\ \A i, j \in DOMAIN sessions :
              sessions[i].id = sessions[j].id => i = j
        /\ \A i, j \in DOMAIN users : users[i].id = users[j].id => i = j

\* C20: each user has one accepted token: a successful login replaces the
\* stored token of the user who logged in, whose earlier token is then no
\* longer accepted, and a failed login leaves the stored tokens unchanged.
C20_LoginReplacesToken ==
    [][(Answered /\ res'.op = "login") =>
          IF res'.status = 200
          THEN \A i \in DOMAIN users :
                   users[i].email = res'.args[1] =>
                       /\ users'[i].token = res'.data.token
                       /\ users'[i].token # users[i].token
                       /\ verifyToken(users', users[i].token) = NoRecord
          ELSE users' = users]_vars

\* the calls that were answered with this status
AnsweredCalls(op, status) ==
    {c \in DOMAIN calls : /\ calls[c].pc = "answered"
                          /\ calls[c].op = op
                          /\ calls[c].status = status}

\* C17: no two stored users share an email, also when the existence check
\* and the create of two register requests for the same email interleave:
\* at most one of them is answered 201.
C17_EmailsUnique ==
    /\ \A i, j \in DOMAIN users : users[i].email = users[j].email => i = j
    /\ \A c, d \in AnsweredCalls("register", 201) :
          calls[c].body.email = calls[d].body.email => c = d

\* C18: in the flat-file store no acknowledged write is lost when requests
\* interleave: a session whose create was answered 201 is in the store
\* unless a delete of its id was carried out, and an acknowledged update of
\* a session that no other update or delete addressed is visible.
C18_NoAcknowledgedWriteLost ==
    /\ \A c \in AnsweredCalls("create", 201) :
          \/ \E i \in DOMAIN sessions : sessions[i].id = calls[c].made.id
          \/ \E d \in AnsweredCalls("delete", 200) :
                calls[d].id = calls[c].made.id
    /\ \A c \in AnsweredCalls("update", 200) :
          (/\ calls[c].made # NoRecord
           /\ \A d \in DOMAIN calls \ {c} :
                 calls[d].op \in {"update", "delete"}
                     => calls[d].id # calls[c].id)
              => \E i \in DOMAIN sessions : sessions[i] = calls[c].made
=============================================================================
